---- MODULE Spec2Model ----
(***************************************************************************)
(* goboscript/project.py: build_project compiles every *.gs file that the *)
(* glob of a folder yields (sprite_from_file: read, parse, Pass 1, Pass 2) *)
(* and exports the Stage unit followed by the ordinary units.              *)
(***************************************************************************)
EXTENDS Integers, Sequences, FiniteSets, TLC

\* The largest number of files one glob call yields in the model.
MaxFiles == 3

\* The largest number of build_project runs on the same folder (SpecRebuild).
MaxBuilds == 2

----------------------------------------------------------------------------
\* File names are sequences of characters, so that basename(file)[:-3] is
\* computed and not assumed.

StageGs == <<"s", "t", "a", "g", "e", ".", "g", "s">>
UpperStageGs == <<"S", "t", "a", "g", "e", ".", "g", "s">>
AGs == <<"a", ".", "g", "s">>

\* The name="Stage" argument of line 33.
StageName == <<"S", "t", "a", "g", "e">>

\* name=None of line 8 (None and "" are both falsy in `name or ...`).
None == <<>>

\* The files glob(f"{folder}/*.gs") can find: folder is interpolated into the
\* pattern unescaped, so a folder such as "p[12]" matches files of two
\* directories.
Universe ==
    { [dir |-> "p1", base |-> StageGs],
      [dir |-> "p1", base |-> UpperStageGs],
      [dir |-> "p1", base |-> AGs],
      [dir |-> "p2", base |-> StageGs],
      [dir |-> "p2", base |-> AGs] }

Range(s) == { s[k] : k \in 1..Len(s) }

\* glob yields each matching file once, directory by directory, in whatever
\* order the file system lists them.
IsEnumeration(s) ==
    /\ \A j, k \in 1..Len(s) : j # k => s[j] # s[k]
    /\ \A j, k, l \in 1..Len(s) :
          (j < k /\ k < l /\ s[j].dir = s[l].dir) => s[k].dir = s[j].dir

Enumerations ==
    UNION { { s \in [1..n -> Universe] : IsEnumeration(s) } : n \in 0..MaxFiles }

basename(file) == file.base

\* s[:-3]
DropLast3(s) == SubSeq(s, 1, Len(s) - 3)

\* `name or basename(file)[:-3]`
SpriteName(file, name) == IF name # None THEN name ELSE DropLast3(basename(file))

----------------------------------------------------------------------------
\* Source texts: a sequence of statements, each a keyword and a name.

Stmt(kw, name) == [kw |-> kw, name |-> name]

Keywords == {"var", "list", "def", "use"}

\* declares the list score
TextDecl == << Stmt("list", "score") >>
\* increments score without declaring it
TextUse == << Stmt("use", "score") >>
\* uses speed and score before their declarations further down
TextFwd == << Stmt("use", "speed"), Stmt("use", "score"),
              Stmt("list", "score"), Stmt("var", "speed") >>
\* declares score twice
TextDup == << Stmt("var", "score"), Stmt("list", "score") >>
\* malformed
TextBad == << Stmt("?", "") >>

Texts == {TextDecl, TextUse, TextFwd, TextDup, TextBad}

\* parser.parse: SyntaxError on malformed input, else one AST node per
\* statement, in document order, with its source location.
ParseFails(txt) == \E k \in 1..Len(txt) : txt[k].kw \notin Keywords

NodeKind(kw) ==
    CASE kw = "var" -> "VarDecl"
      [] kw = "list" -> "ListDecl"
      [] kw = "def" -> "FuncDecl"
      [] OTHER -> "Ref"

parse(txt) ==
    [k \in 1..Len(txt) |->
        [kind |-> NodeKind(txt[k].kw), name |-> txt[k].name, loc |-> k]]

\* gm.Sprite(name, [""])
Sprite(name) ==
    [name |-> name, costumes |-> <<"">>, variables |-> {}, lists |-> {},
     blocks |-> <<>>]

\* parser.FirstPass(sprite): nothing collected yet.
FirstPass ==
    [vars |-> {}, lsts |-> {}, funcs |-> {}, visited |-> 0, failed |-> FALSE]

Declared(t) == t.vars \cup t.lsts \cup t.funcs

\* One node of first_pass.visit(tree).
VisitNode(t, node) ==
    IF node.kind = "Ref" THEN [t EXCEPT !.visited = @ + 1]
    ELSE IF node.name \in Declared(t) THEN [t EXCEPT !.failed = TRUE]
    ELSE CASE node.kind = "VarDecl" ->
                 [t EXCEPT !.vars = @ \cup {node.name}, !.visited = @ + 1]
           [] node.kind = "ListDecl" ->
                 [t EXCEPT !.lsts = @ \cup {node.name}, !.visited = @ + 1]
           [] OTHER ->
                 [t EXCEPT !.funcs = @ \cup {node.name}, !.visited = @ + 1]

\* first_pass.visit(tree): every node once, in document order, stopping at a
\* redeclaration (DuplicateDeclarationError).
RECURSIVE Visit(_, _, _)
Visit(t, ast, k) ==
    IF k > Len(ast) \/ t.failed THEN t
    ELSE Visit(VisitNode(t, ast[k]), ast, k + 1)

\* Pass 1 materializes the declared variables and lists on the sprite.
Annotate(spr, t) == [spr EXCEPT !.variables = t.vars, !.lists = t.lsts]

\* parser.SecondPass(sprite, vars, lsts, funcs): the tables it resolves
\* identifiers in.  stage holds the Stage's tables it was given.
SecondPassSwapped(spr, vars, lsts, funcs) ==
    [vars |-> lsts, lsts |-> vars, funcs |-> funcs, stage |-> {}]

SecondPass(spr, vars, lsts, funcs) ==
    [vars |-> vars, lsts |-> lsts, funcs |-> funcs, stage |-> {}]

\* Identifier resolution: the unit's own tables first, then the Stage's.
Resolves(sp, name) == name \in Declared(sp) \/ name \in sp.stage

Refs(ast) == SelectSeq(ast, LAMBDA n : n.kind = "Ref")

\* The first identifier second_pass.transform(tree) cannot resolve, if any.
Unresolved(sp, ast) ==
    { k \in 1..Len(Refs(ast)) : ~Resolves(sp, Refs(ast)[k].name) }

Min(S) == CHOOSE x \in S : \A y \in S : x <= y

\* second_pass.transform(tree): one block per executable construct, in
\* source order.
transform(sp, ast) ==
    [k \in 1..Len(Refs(ast)) |->
        [op |-> "change", name |-> Refs(ast)[k].name, at |-> Refs(ast)[k].loc]]

\* sprite.blocks.extend(blocks)
Extend(old, new) == old \o new

\* sprites.append(...)
ListPrepend(lst, x) == <<x>> \o lst

ListAppend(lst, x) == Append(lst, x)

----------------------------------------------------------------------------
VARIABLES
    files,        \* the glob result, in enumeration order
    text,         \* the content of each enumerated file
    builds,       \* build_project runs started on this folder
    prev,         \* what the previous run exported (<<>>: nothing)
    pc,           \* the statement build_project / sprite_from_file is at
    i,            \* position of the for loop in files
    stage,        \* build_project's local stage: <<>> while unbound
    sprites,      \* build_project's local sprites
    exported,     \* the unit lists handed to Project(...).export, in order
    error,        \* the exception that ended the run
    sprite, fp, src, tree, first_pass, second_pass, blocks
                  \* sprite_from_file's locals

locals == <<sprite, fp, src, tree, first_pass, second_pass, blocks>>
vars == <<files, text, builds, prev, pc, i, stage, sprites, exported, error,
          locals>>

NoError == [type |-> "none", name |-> ""]
Exception(type, name) == [type |-> type, name |-> name]

IsStageFile(file) == basename(file) = StageGs

\* The state build_project is in once `sprites = []` has run and glob has
\* listed the folder.
Start(order) ==
    /\ files = order
    /\ pc = "for"
    /\ i = 1
    /\ stage = <<>>
    /\ sprites = <<>>
    /\ exported = <<>>
    /\ error = NoError
    /\ sprite = Sprite(None)
    /\ fp = "none"
    /\ src = <<>>
    /\ tree = <<>>
    /\ first_pass = FirstPass
    /\ second_pass = SecondPass(Sprite(None), {}, {}, {})
    /\ blocks = <<>>

Init ==
    /\ \E order \in Enumerations :
          /\ Start(order)
          /\ text \in [Range(order) -> Texts]
    /\ builds = 1
    /\ prev = <<>>

\* An exception leaves sprite_from_file and build_project: nothing catches it.
RaiseSwallowed(e) ==
    /\ pc' = IF i <= Len(files) THEN "for" ELSE "raised"
    /\ i' = IF i <= Len(files) THEN i + 1 ELSE i
    /\ error' = e

Raise(e) ==
    /\ pc' = "raised"
    /\ error' = e
    /\ i' = i

\* Lines 31-35 and 8-9: the loop takes the next file and calls
\* sprite_from_file, which creates the sprite.
Call ==
    /\ pc = "for"
    /\ i <= Len(files)
    /\ sprite' = Sprite(SpriteName(files[i],
                        IF IsStageFile(files[i]) THEN StageName ELSE None))
    /\ fp' = "none"
    /\ src' = <<>>
    /\ tree' = <<>>
    /\ first_pass' = FirstPass
    /\ second_pass' = SecondPass(Sprite(None), {}, {}, {})
    /\ blocks' = <<>>
    /\ pc' = "open"
    /\ UNCHANGED <<files, text, builds, prev, i, stage, sprites, exported, error>>

\* Line 10
Open ==
    /\ pc = "open"
    /\ fp' = "open"
    /\ pc' = "read"
    /\ UNCHANGED <<files, text, builds, prev, i, stage, sprites, exported, error,
                   sprite, src, tree, first_pass, second_pass, blocks>>

\* Line 11 and the end of the with block.
Read ==
    /\ pc = "read"
    /\ src' = text[files[i]]
    /\ fp' = "closed"
    /\ pc' = "parse"
    /\ UNCHANGED <<files, text, builds, prev, i, stage, sprites, exported, error,
                   sprite, tree, first_pass, second_pass, blocks>>

\* Line 12
Parse ==
    /\ pc = "parse"
    /\ IF ParseFails(src)
         THEN /\ Raise(Exception("SyntaxError", ""))
              /\ UNCHANGED tree
         ELSE /\ tree' = parse(src)
              /\ pc' = "pass1"
              /\ UNCHANGED <<i, error>>
    /\ UNCHANGED <<files, text, builds, prev, stage, sprites, exported,
                   sprite, fp, src, first_pass, second_pass, blocks>>

\* Lines 13-14
Pass1 ==
    /\ pc = "pass1"
    /\ first_pass' = Visit(FirstPass, tree, 1)
    /\ IF first_pass'.failed
         THEN /\ Raise(Exception("DuplicateDeclarationError",
                                 tree[first_pass'.visited + 1].name))
              /\ UNCHANGED sprite
         ELSE /\ sprite' = Annotate(sprite, first_pass')
              /\ pc' = "construct"
              /\ UNCHANGED <<i, error>>
    /\ UNCHANGED <<files, text, builds, prev, stage, sprites, exported,
                   fp, src, tree, second_pass, blocks>>

\* Lines 16-18
Construct ==
    /\ pc = "construct"
    /\ second_pass' = SecondPass(sprite, first_pass.vars, first_pass.lsts,
                                 first_pass.funcs)
    /\ pc' = "transform"
    /\ UNCHANGED <<files, text, builds, prev, i, stage, sprites, exported, error,
                   sprite, fp, src, tree, first_pass, blocks>>

\* Line 23
Transform ==
    /\ pc = "transform"
    /\ IF Unresolved(second_pass, tree) # {}
         THEN /\ Raise(Exception("UnresolvedReferenceError",
                          Refs(tree)[Min(Unresolved(second_pass, tree))].name))
              /\ UNCHANGED blocks
         ELSE /\ blocks' = transform(second_pass, tree)
              /\ pc' = "extend"
              /\ UNCHANGED <<i, error>>
    /\ UNCHANGED <<files, text, builds, prev, stage, sprites, exported,
                   sprite, fp, src, tree, first_pass, second_pass>>

\* Line 25
ExtendBlocks ==
    /\ pc = "extend"
    /\ sprite' = [sprite EXCEPT !.blocks = Extend(@, blocks)]
    /\ pc' = "return"
    /\ UNCHANGED <<files, text, builds, prev, i, stage, sprites, exported, error,
                   fp, src, tree, first_pass, second_pass, blocks>>

\* Line 26, and the assignment of line 33 or the append of line 35.
Return ==
    /\ pc = "return"
    /\ IF IsStageFile(files[i])
         THEN /\ stage' = <<sprite>>
              /\ UNCHANGED sprites
         ELSE /\ sprites' = ListAppend(sprites, sprite)
              /\ UNCHANGED stage
    /\ i' = i + 1
    /\ pc' = "for"
    /\ UNCHANGED <<files, text, builds, prev, exported, error, locals>>

\* Line 36: [stage] + sprites reads the local stage, which is unbound when no
\* stage.gs was enumerated (UnboundLocalError).
Export ==
    /\ pc = "for"
    /\ i > Len(files)
    /\ IF stage = <<>>
         THEN /\ Raise(Exception("UnboundLocalError", "stage"))
              /\ UNCHANGED exported
         ELSE /\ exported' = Append(exported, stage \o sprites)
              /\ pc' = "done"
              /\ UNCHANGED <<i, error>>
    /\ UNCHANGED <<files, text, builds, prev, stage, sprites, locals>>

\* build_project is run again on the unchanged folder; the file system may
\* list the same files in another order.
Rebuild ==
    /\ pc = "done"
    /\ builds < MaxBuilds
    /\ \E order \in Enumerations :
          /\ Range(order) = Range(files)
          /\ files' = order
    /\ builds' = builds + 1
    /\ prev' = exported[1]
    /\ pc' = "for"
    /\ i' = 1
    /\ stage' = <<>>
    /\ sprites' = <<>>
    /\ exported' = <<>>
    /\ UNCHANGED <<text, error, locals>>

Next ==
    \/ Call
    \/ Open
    \/ Read
    \/ Parse
    \/ Pass1
    \/ Construct
    \/ Transform
    \/ ExtendBlocks
    \/ Return
    \/ Export

NextRebuild == Next \/ Rebuild

Spec == Init /\ [][Next]_vars

SpecRebuild == Init /\ [][NextRebuild]_vars

----------------------------------------------------------------------------
\* What the code does with one file, as functions of its text.

Terminated == pc \in {"done", "raised"}

\* sprite_from_file(file, name) returns without raising.
Compiles(file) ==
    LET ast == parse(text[file])
        t == Visit(FirstPass, ast, 1)
    IN  /\ ~ParseFails(text[file])
        /\ ~t.failed
        /\ Unresolved(SecondPass(Sprite(None), t.vars, t.lsts, t.funcs), ast) = {}

\* The sprite sprite_from_file(file, name) returns when it does not raise.
UnitOf(file, name) ==
    LET ast == parse(text[file])
        t == Visit(FirstPass, ast, 1)
        spr == Annotate(Sprite(SpriteName(file, name)), t)
        sp == SecondPass(spr, t.vars, t.lsts, t.funcs)
    IN  [spr EXCEPT !.blocks = Extend(@, transform(sp, ast))]

StageFiles == { k \in 1..Len(files) : IsStageFile(files[k]) }

Ordinary == SelectSeq(files, LAMBDA f : ~IsStageFile(f))

\* The enumerated files are those of one folder.
SingleFolder == \A j, k \in 1..Len(files) : files[j].dir = files[k].dir

InSpriteFromFile ==
    pc \in {"open", "read", "parse", "pass1", "construct", "transform",
            "extend", "return"}

----------------------------------------------------------------------------
\* C1: when the files of one folder include stage.gs and every unit compiles,
\* the run ends having handed the exporter exactly one list: the Stage unit,
\* then the unit of each ordinary file in enumeration order, one unit per
\* file.
C1_StageFirstThenDiscoveryOrder ==
    (/\ Terminated
     /\ SingleFolder
     /\ StageFiles # {}
     /\ \A k \in 1..Len(files) : Compiles(files[k]))
    => /\ Len(exported) = 1
       /\ Len(exported[1]) = Len(files)
       /\ exported[1][1] = UnitOf(files[Min(StageFiles)], StageName)
       /\ \A k \in 1..Len(Ordinary) :
             exported[1][k + 1] = UnitOf(Ordinary[k], None)

\* A folder of three files, stage.gs not enumerated first, was exported.
C1_Witness ==
    /\ pc = "done"
    /\ SingleFolder
    /\ Len(files) = 3
    /\ ~IsStageFile(files[1])
    /\ Len(exported) = 1

\* C2: whenever Pass 2 of an ordinary unit has run in a build whose
\* enumeration holds a stage.gs, the Stage unit has been compiled before.
C2_StageBeforeOrdinaryPass2 ==
    (/\ pc \in {"extend", "return"}
     /\ ~IsStageFile(files[i])
     /\ StageFiles # {})
    => stage # <<>>

\* C3: Pass 2 of an ordinary unit compiled after the Stage resolves every
\* identifier the Stage declares: it never ends with UnresolvedReferenceError
\* for a name in the Stage's variables or lists.
C3_StageIdentifiersResolve ==
    (/\ pc = "raised"
     /\ error.type = "UnresolvedReferenceError"
     /\ ~IsStageFile(files[i])
     /\ stage # <<>>)
    => error.name \notin stage[1].variables \cup stage[1].lists

\* C4: when a run has ended, sprite_from_file was called for every
\* enumerated file, also for those enumerated after a failing unit.
C4_SiblingsStillCompiled == Terminated => i >= Len(files)

\* C5: the exporter is invoked at most once, only at the end of the loop,
\* only when every enumerated unit compiles and no exception was raised.
C5_NoExportAfterFailure ==
    /\ Len(exported) <= 1
    /\ exported # <<>> =>
          /\ error = NoError
          /\ i > Len(files)
          /\ \A k \in 1..Len(files) : Compiles(files[k])
    /\ error # NoError => exported = <<>>

\* The Stage compiled, a unit enumerated later failed, the run ended.
C5_Witness ==
    /\ pc = "raised"
    /\ stage # <<>>
    /\ i <= Len(files)
    /\ ~Compiles(files[i])
    /\ exported = <<>>

\* C6: no list handed to the exporter for the files of one folder holds two
\* units of the same name.
C6_UnitNamesUnique ==
    SingleFolder =>
    \A n \in 1..Len(exported) :
        \A j, k \in 1..Len(exported[n]) :
            j # k => exported[n][j].name # exported[n][k].name

\* C7: when more than one enumerated file is named stage.gs, nothing is
\* exported and a run that ends ends with DuplicateStageError.
C7_DuplicateStageRejected ==
    Cardinality(StageFiles) > 1
    => /\ exported = <<>>
       /\ pc # "done"

\* C8: a second build of the unchanged folder exports the same sequence of
\* units as the first.
C8_RebuildSameOrder ==
    (builds > 1 /\ pc = "done" /\ SingleFolder) => exported[1] = prev

\* C9: inside sprite_from_file the file is closed before parsing, Pass 1 has
\* visited the whole tree before Pass 2 is constructed, Pass 2 holds the
\* tables of Pass 1, the blocks of Pass 2 are the sprite's blocks, in order
\* and once, and the sprite returned is the one the caller stores.
C9_PipelineOrder ==
    /\ pc \in {"parse", "pass1", "construct", "transform", "extend", "return"}
       => fp = "closed" /\ src = text[files[i]]
    /\ pc \in {"construct", "transform", "extend", "return"}
       => /\ tree = parse(src)
          /\ first_pass.visited = Len(tree)
          /\ ~first_pass.failed
    /\ pc \in {"open", "read", "parse", "pass1", "construct"}
       => second_pass = SecondPass(Sprite(None), {}, {}, {}) /\ blocks = <<>>
    /\ pc \in {"transform", "extend", "return"}
       => /\ second_pass.vars = first_pass.vars
          /\ second_pass.lsts = first_pass.lsts
          /\ second_pass.funcs = first_pass.funcs
    /\ (InSpriteFromFile /\ pc # "return") => sprite.blocks = <<>>
    /\ pc = "return"
       => /\ sprite.blocks = blocks
          /\ blocks = transform(second_pass, tree)
    /\ (pc = "for" /\ i > 1)
       => IF IsStageFile(files[i - 1])
            THEN stage = <<sprite>>
            ELSE sprites # <<>> /\ sprites[Len(sprites)] = sprite

\* A unit with two blocks, a list and a variable is about to be returned.
C9_Witness ==
    /\ pc = "return"
    /\ Len(sprite.blocks) = 2
    /\ first_pass.lsts # {}
    /\ first_pass.vars # {}
    /\ first_pass.lsts # first_pass.vars

\* C10: a run on an enumeration without stage.gs ends with an error, exports
\* nothing, and has compiled every enumerated unit before it ends.
C10_NoStageNoExport ==
    StageFiles = {}
    => /\ exported = <<>>
       /\ pc # "done"
       /\ pc = "raised" => i > Len(files)

====
